---------------------------- MODULE Spec2Model ----------------------------
(***************************************************************************)
(* photo_organizer (src/main.py): the batch driver main, the placer        *)
(* manipulate_file, the collision resolver branch_no and the date parser   *)
(* parse_datetime, over a file system of paths.                            *)
(*                                                                         *)
(* Text is modelled character by character: a string is a sequence of      *)
(* one-character strings, so that glob matching, regular-expression        *)
(* search, str()/int() conversion and strptime work on what the code       *)
(* hands them.                                                             *)
(***************************************************************************)
EXTENDS Integers, Sequences, FiniteSets, TLC

(***************************************************************************)
(* Characters and strings                                                  *)
(***************************************************************************)
DigitChars == <<"0", "1", "2", "3", "4", "5", "6", "7", "8", "9">>

IsDigit(c) == \E i \in 1..10 : DigitChars[i] = c

DigitVal(c) == (CHOOSE i \in 1..10 : DigitChars[i] = c) - 1

\* The printable ASCII characters in code point order (32..126, without the
\* double quote, the backslash and the grave accent, which no modelled text
\* holds).
Ascii ==
  <<" ", "!", "#", "$", "%", "&", "'", "(", ")", "*", "+", ",", "-",
    ".", "/", "0", "1", "2", "3", "4", "5", "6", "7", "8", "9", ":", ";",
    "<", "=", ">", "?", "@", "A", "B", "C", "D", "E", "F", "G", "H", "I",
    "J", "K", "L", "M", "N", "O", "P", "Q", "R", "S", "T", "U", "V", "W",
    "X", "Y", "Z", "[", "]", "^", "_", "a", "b", "c", "d", "e",
    "f", "g", "h", "i", "j", "k", "l", "m", "n", "o", "p", "q", "r", "s",
    "t", "u", "v", "w", "x", "y", "z", "{", "|", "}", "~">>

Ord(c) == CHOOSE i \in 1..Len(Ascii) : Ascii[i] = c

\* Python's s < t on str: lexicographic by code point, a proper prefix first.
RECURSIVE StrLess(_, _)
StrLess(s, t) ==
  IF t = <<>> THEN FALSE
  ELSE IF s = <<>> THEN TRUE
  ELSE IF Head(s) = Head(t) THEN StrLess(Tail(s), Tail(t))
  ELSE Ord(Head(s)) < Ord(Head(t))

\* s[:n]
Take(s, n) == SubSeq(s, 1, IF Len(s) < n THEN Len(s) ELSE n)

\* s[p:] for a 1-based position p
Drop(s, p) == SubSeq(s, p, Len(s))

\* whether t occurs in s at 1-based position p
OccursAt(t, s, p) ==
  /\ p + Len(t) - 1 <= Len(s)
  /\ \A i \in 1..Len(t) : s[p + i - 1] = t[i]

\* Python's t in s
Contains(s, t) == \E p \in 1..(Len(s) + 1) : OccursAt(t, s, p)

\* str(n) for an int n >= 0
RECURSIVE IntToStr(_)
IntToStr(n) ==
  IF n < 10 THEN <<DigitChars[n + 1]>>
  ELSE IntToStr(n \div 10) \o <<DigitChars[(n % 10) + 1]>>

\* int(s) for a non-empty string of decimal digits (leading zeros allowed)
RECURSIVE StrToInt(_)
StrToInt(s) ==
  IF Len(s) = 1 THEN DigitVal(s[1])
  ELSE 10 * StrToInt(SubSeq(s, 1, Len(s) - 1)) + DigitVal(s[Len(s)])

\* '%02d'-style zero padding, as strftime gives for %m %d %H %M %S
Pad2(n) == IF n < 10 THEN <<"0">> \o IntToStr(n) ELSE IntToStr(n)

(***************************************************************************)
(* JSON values of an attribute record: a string, a number or null.         *)
(***************************************************************************)
Sv(s) == [t |-> "str", s |-> s, n |-> 0]

Nv(n) == [t |-> "num", s |-> <<>>, n |-> n]

Null == [t |-> "null", s |-> <<>>, n |-> 0]

\* Python truthiness, as `or` tests it
Truthy(v) ==
  CASE v.t = "str" -> v.s # <<>>
    [] v.t = "num" -> v.n # 0
    [] OTHER -> FALSE

\* str(v), as string.Formatter renders a field
PyStr(v) ==
  CASE v.t = "str" -> v.s
    [] v.t = "num" -> IntToStr(v.n)
    [] OTHER -> <<"N", "o", "n", "e">>

\* dict.get(key): the value, or None
Get(exif, k) == IF k \in DOMAIN exif THEN exif[k] ELSE Null

(***************************************************************************)
(* parse_datetime                                                          *)
(***************************************************************************)
IsSpace(c) == c \in {" ", "\t", "\n", "\r"}

TwoDigits(s, p) == p + 1 <= Len(s) /\ IsDigit(s[p]) /\ IsDigit(s[p + 1])

Val2(s, p) == 10 * DigitVal(s[p]) + DigitVal(s[p + 1])

OneDigit(s, p) == p <= Len(s) /\ IsDigit(s[p])

\* Largest value the two-digit alternatives of a strptime directive accept.
DirectiveMax(f) ==
  CASE f = "m" -> 12 [] f = "d" -> 31 [] f = "H" -> 23
    [] f = "M" -> 59 [] OTHER -> 61

\* Smallest value the two-digit alternatives accept (0[1-9] for %m and %d).
DirectiveMin(f) == IF f \in {"m", "d"} THEN 1 ELSE 0

\* The number of characters the regular expression of directive f takes at p
\* (its alternatives in their order), 0 when none matches.
\*   %Y \d\d\d\d                  %m 1[0-2]|0[1-9]|[1-9]
\*   %d 3[0-1]|[1-2]\d|0[1-9]|[1-9]| [1-9]
\*   %H 2[0-3]|[0-1]\d|\d         %M [0-5]\d|\d       %S 6[0-1]|[0-5]\d|\d
DirectiveLen(f, s, p) ==
  IF f = "Y"
  THEN IF TwoDigits(s, p) /\ TwoDigits(s, p + 2) THEN 4 ELSE 0
  ELSE IF TwoDigits(s, p) /\ Val2(s, p) >= DirectiveMin(f)
                          /\ Val2(s, p) <= DirectiveMax(f) THEN 2
  ELSE IF OneDigit(s, p) /\ DigitVal(s[p]) >= DirectiveMin(f) THEN 1
  ELSE IF f = "d" /\ p + 1 <= Len(s) /\ s[p] = " "
                  /\ OneDigit(s, p + 1) /\ s[p + 1] # "0" THEN 2
  ELSE 0

\* int() of the text a directive matched (int(' 5') = 5)
DirectiveVal(s, p, n) ==
  IF s[p] = " " THEN DigitVal(s[p + 1]) ELSE StrToInt(SubSeq(s, p, p + n - 1))

\* '%Y:%m:%d %H:%M:%S' as strptime compiles it: directives, literal
\* characters, and white space (which becomes \s+).
StrptimeFormat == <<"Y", ":", "m", ":", "d", " ", "H", ":", "M", ":", "S">>

RECURSIVE SpaceRun(_, _)
SpaceRun(s, p) ==
  IF p <= Len(s) /\ IsSpace(s[p]) THEN 1 + SpaceRun(s, p + 1) ELSE 0

\* Matches format items i.. against s from position p; acc collects the
\* directive values.  The result is [ok, v]: ok is FALSE when the regular
\* expression does not match or text is left over (ValueError).  No
\* backtracking is lost: a two-character alternative that matches ends in a
\* digit, so the one-character alternative could not be followed by the
\* separator that comes next.
RECURSIVE StrptimeFrom(_, _, _, _)
StrptimeFrom(s, p, i, acc) ==
  IF i > Len(StrptimeFormat) THEN [ok |-> p = Len(s) + 1, v |-> acc]
  ELSE LET f == StrptimeFormat[i] IN
    IF f = ":"
    THEN IF p <= Len(s) /\ s[p] = ":" THEN StrptimeFrom(s, p + 1, i + 1, acc)
         ELSE [ok |-> FALSE, v |-> acc]
    ELSE IF f = " "
    THEN IF SpaceRun(s, p) > 0
         THEN StrptimeFrom(s, p + SpaceRun(s, p), i + 1, acc)
         ELSE [ok |-> FALSE, v |-> acc]
    ELSE LET n == DirectiveLen(f, s, p) IN
         IF n = 0 THEN [ok |-> FALSE, v |-> acc]
         ELSE StrptimeFrom(s, p + n, i + 1,
                           Append(acc, DirectiveVal(s, p, n)))

IsLeap(y) == (y % 4 = 0 /\ y % 100 # 0) \/ y % 400 = 0

DaysInMonth(y, m) ==
  IF m = 2 THEN (IF IsLeap(y) THEN 29 ELSE 28)
  ELSE IF m \in {4, 6, 9, 11} THEN 30 ELSE 31

\* datetime(...) accepts the values: year >= MINYEAR, a day of the month,
\* second <= 59 (%S lets 60 and 61 through, datetime does not)
DatetimeValid(v) ==
  /\ v[1] >= 1
  /\ v[3] <= DaysInMonth(v[1], v[2])
  /\ v[6] <= 59

ZeroDate ==
  [y |-> <<"0", "0", "0", "0">>, m |-> <<"0", "0">>, d |-> <<"0", "0">>,
   H |-> <<"0", "0">>, M |-> <<"0", "0">>, S |-> <<"0", "0">>]

\* parse_datetime(createdate): createdate[:19] raises on None and numbers,
\* strptime raises on text that does not match; every exception gives the
\* zero date.  strftime('%Y') is the year as the C library prints it (no
\* padding below 1000 with glibc); the inputs used keep years at 4 digits.
parse_datetime(createdate) ==
  IF createdate.t # "str" THEN ZeroDate
  ELSE LET r == StrptimeFrom(Take(createdate.s, 19), 1, 1, <<>>) IN
    IF ~r.ok \/ ~DatetimeValid(r.v) THEN ZeroDate
    ELSE [y |-> IntToStr(r.v[1]), m |-> Pad2(r.v[2]), d |-> Pad2(r.v[3]),
          H |-> Pad2(r.v[4]), M |-> Pad2(r.v[5]), S |-> Pad2(r.v[6])]

(***************************************************************************)
(* string.Formatter().vformat over a defaultdict                           *)
(***************************************************************************)
Unknown == <<"U", "n", "k", "n", "o", "w", "n">>

\* A format string as Formatter.parse splits it: literal text and
\* replacement fields {name}.
Lit(s) == [k |-> "lit", s |-> s]

Field(s) == [k |-> "field", s |-> s]

\* DEFAULT_FILENAME_FORMAT:
\* '{y}{m}{d}/{Model}/{y}{m}{d}{H}{M}{S}-{bn}.{FileTypeExtension}'
DEFAULT_FILENAME_FORMAT ==
  <<Field(<<"y">>), Field(<<"m">>), Field(<<"d">>), Lit(<<"/">>),
    Field(<<"M", "o", "d", "e", "l">>), Lit(<<"/">>),
    Field(<<"y">>), Field(<<"m">>), Field(<<"d">>),
    Field(<<"H">>), Field(<<"M">>), Field(<<"S">>), Lit(<<"-">>),
    Field(<<"b", "n">>), Lit(<<".">>),
    Field(<<"F", "i", "l", "e", "T", "y", "p", "e",
            "E", "x", "t", "e", "n", "s", "i", "o", "n">>)>>

\* default_factory giving the empty text
default_factory_empty == Sv(<<>>)

\* defaultdict(lambda: 'Unknown'): what a missing key is given
default_factory == Sv(Unknown)

\* photo_info[key] on the defaultdict
Lookup(photo_info, key) ==
  IF key \in DOMAIN photo_info THEN photo_info[key] ELSE default_factory

\* The keys a format string looks up.
FieldsOf(format) ==
  {format[i].s : i \in {j \in 1..Len(format) : format[j].k = "field"}}

\* The defaultdict after the look-ups of one vformat: a missing key is stored
\* with the default.
Touched(photo_info, format) ==
  photo_info
  @@ [key \in FieldsOf(format) \ DOMAIN photo_info |-> default_factory]

RECURSIVE vformat(_, _)
vformat(format, photo_info) ==
  IF format = <<>> THEN <<>>
  ELSE (IF Head(format).k = "lit" THEN Head(format).s
        ELSE PyStr(Lookup(photo_info, Head(format).s)))
       \o vformat(Tail(format), photo_info)

\* os.path.join(base, name) for a relative name and a base without a
\* trailing slash
PathJoin(base, name) == base \o <<"/">> \o name

\* os.path.dirname(path): the text before the last slash
RECURSIVE LastSlash(_, _)
LastSlash(path, i) ==
  IF i = 0 THEN 0 ELSE IF path[i] = "/" THEN i ELSE LastSlash(path, i - 1)

Dirname(path) ==
  LET i == LastSlash(path, Len(path)) IN
  IF i = 0 THEN <<>> ELSE SubSeq(path, 1, i - 1)

(***************************************************************************)
(* glob.glob and re.search, for the patterns branch_no builds              *)
(***************************************************************************)
GlobDigits == <<"[", "0", "-", "9", "]", "*">>

ReDigits == <<"(", "[", "0", "-", "9", "]", "*", ")">>

\* A character class [a-b] at position i of a glob pattern.
IsRangeClass(pat, i) ==
  i + 4 <= Len(pat) /\ pat[i] = "[" /\ pat[i + 2] = "-" /\ pat[i + 4] = "]"

\* fnmatch of a whole path against a whole pattern: pat from position i
\* against s from position j.  glob matches component by component, which is
\* the same as letting no wildcard match a slash.  (Names with a leading dot
\* are hidden from a wildcard component that does not itself begin with a
\* dot; no pattern modelled begins a component with a wildcard that could
\* match a dot.)
RECURSIVE GlobMatchFrom(_, _, _, _)
GlobMatchFrom(pat, i, s, j) ==
  IF i > Len(pat) THEN j > Len(s)
  ELSE IF pat[i] = "*"
  THEN \/ GlobMatchFrom(pat, i + 1, s, j)
       \/ j <= Len(s) /\ s[j] # "/" /\ GlobMatchFrom(pat, i, s, j + 1)
  ELSE IF j > Len(s) THEN FALSE
  ELSE IF pat[i] = "?"
  THEN s[j] # "/" /\ GlobMatchFrom(pat, i + 1, s, j + 1)
  ELSE IF IsRangeClass(pat, i)
  THEN /\ s[j] # "/"
       /\ Ord(pat[i + 1]) <= Ord(s[j])
       /\ Ord(s[j]) <= Ord(pat[i + 3])
       /\ GlobMatchFrom(pat, i + 5, s, j + 1)
  ELSE s[j] = pat[i] /\ GlobMatchFrom(pat, i + 1, s, j + 1)

GlobMatch(pat, s) == GlobMatchFrom(pat, 1, s, 1)

\* glob.has_magic
HasMagic(s) == \E i \in 1..Len(s) : s[i] \in {"*", "?", "["}

\* Glob finding no path
GlobNothing(pattern, entries) == {}

\* glob.glob(pattern): the files and directories that match.  A directory
\* part without wildcards is taken as it stands, and the names in it are
\* matched against the last component.
Glob(pattern, entries) ==
  LET dirname == Dirname(pattern) IN
  IF HasMagic(dirname) THEN {e \in entries : GlobMatch(pattern, e)}
  ELSE {e \in entries :
          /\ Len(e) > Len(dirname)
          /\ SubSeq(e, 1, Len(dirname)) = dirname
          /\ GlobMatchFrom(pattern, Len(dirname) + 1, e, Len(dirname) + 1)}

RECURSIVE DigitRun(_, _)
DigitRun(s, p) ==
  IF p <= Len(s) /\ IsDigit(s[p]) THEN 1 + DigitRun(s, p + 1) ELSE 0

\* Whether the one-character expression c matches s at position p, and how
\* many times in a row it does from there.
CharMatches(c, s, p) ==
  p <= Len(s) /\ ((c = "." /\ s[p] # "\n") \/ c = s[p])

RECURSIVE CharRun(_, _, _)
CharRun(c, s, p) ==
  IF CharMatches(c, s, p) THEN 1 + CharRun(c, s, p + 1) ELSE 0

\* The regular expression pat, from its position i, matched against s from
\* position p, for the syntax a rendered format holds: the group ([0-9]*),
\* greedy with backtracking; a character followed by * or ?, repeated or
\* optional, greedy with backtracking; the dot, any character but a
\* newline; a literal character otherwise.  The result is the set of the
\* texts group 1 can take in a match, in a sequence with the greediest
\* first: empty when nothing matches, <<"-">> for a match of a pattern
\* without a group.
NoGroup == <<"-">>

RECURSIVE ReMatch(_, _, _, _)
RECURSIVE ReGroup(_, _, _, _, _)
RECURSIVE ReRepeat(_, _, _, _, _)
ReMatch(pat, i, s, p) ==
  IF i > Len(pat) THEN <<NoGroup>>
  ELSE IF pat[i] = "(" /\ OccursAt(ReDigits, pat, i)
  THEN ReGroup(pat, i + Len(ReDigits), s, p, DigitRun(s, p))
  ELSE IF i < Len(pat) /\ pat[i + 1] = "*"
  THEN ReRepeat(pat, i + 2, s, p, CharRun(pat[i], s, p))
  ELSE IF i < Len(pat) /\ pat[i + 1] = "?"
  THEN ReRepeat(pat, i + 2, s, p,
                IF CharMatches(pat[i], s, p) THEN 1 ELSE 0)
  ELSE IF CharMatches(pat[i], s, p)
  THEN ReMatch(pat, i + 1, s, p + 1)
  ELSE <<>>

\* The repeated character taken k times, then fewer.
ReRepeat(pat, i, s, p, k) ==
  LET m == ReMatch(pat, i, s, p + k) IN
  IF m # <<>> THEN m
  ELSE IF k = 0 THEN <<>>
  ELSE ReRepeat(pat, i, s, p, k - 1)

\* The group taking k digits, then fewer.
ReGroup(pat, i, s, p, k) ==
  IF ReMatch(pat, i, s, p + k) # <<>> THEN <<SubSeq(s, p, p + k - 1)>>
  ELSE IF k = 0 THEN <<>>
  ELSE ReGroup(pat, i, s, p, k - 1)

\* re.search(pat, s): the match at the leftmost position that has one, as
\* [ok, has, g]: whether there is a match, whether the pattern has a group,
\* the text of group 1.
RECURSIVE ReSearchFrom(_, _, _)
ReSearchFrom(pat, s, p) ==
  IF p > Len(s) + 1 THEN [ok |-> FALSE, has |-> FALSE, g |-> <<>>]
  ELSE LET m == ReMatch(pat, 1, s, p) IN
       IF m = <<>> THEN ReSearchFrom(pat, s, p + 1)
       ELSE [ok |-> TRUE, has |-> m[1] # NoGroup,
             g |-> IF m[1] = NoGroup THEN <<>> ELSE m[1]]

ReSearch(pat, s) == ReSearchFrom(pat, s, 1)

\* int(m.group(1)) raises: m is None (AttributeError), the pattern has no
\* group (IndexError), or the group is empty (ValueError).
GroupRaises(m) == ~m.ok \/ ~m.has \/ m.g = <<>>

Max(a, b) == IF a >= b THEN a ELSE b

(***************************************************************************)
(* branch_no                                                               *)
(***************************************************************************)
K_bn == <<"b", "n">>

\* photo_info[key] = value
Store(photo_info, key, value) == (key :> value) @@ photo_info

\* lines 51-53: the pattern handed to glob.glob
GlobPattern(output_base_path, filename_format, photo_info) ==
  PathJoin(output_base_path,
           vformat(filename_format, Store(photo_info, K_bn, Sv(GlobDigits))))

\* lines 59-60: the regular expression the matched paths are searched with
BnSearch(filename_format, photo_info) ==
  vformat(filename_format, Store(photo_info, K_bn, Sv(ReDigits)))

\* NextBn counting the matched paths
NextBnCounted(bn, m) == bn + 1

\* NextBn keeping the number of the path visited last
NextBnLast(bn, m) == StrToInt(m.g)

\* line 63: bn = max(bn, int(m.group(1)))
NextBn(bn, m) == Max(bn, StrToInt(m.g))

\* BranchNoResult handing out the largest number in use
BranchNoResultInUse(bn) == bn

\* line 64: return bn + 1
BranchNoResult(bn) == bn + 1

(***************************************************************************)
(* Attribute records and the steps of manipulate_file and main             *)
(***************************************************************************)
K_SourceFile == <<"S", "o", "u", "r", "c", "e", "F", "i", "l", "e">>

K_FileName == <<"F", "i", "l", "e", "N", "a", "m", "e">>

K_Model == <<"M", "o", "d", "e", "l">>

K_FileTypeExtension == <<"F", "i", "l", "e", "T", "y", "p", "e", "E", "x",
      "t", "e", "n", "s", "i", "o", "n">>

K_CreateDate == <<"C", "r", "e", "a", "t", "e", "D", "a", "t", "e">>

K_DateCreated == <<"D", "a", "t", "e", "C", "r", "e", "a", "t", "e", "d">>

K_DateTimeOriginal == <<"D", "a", "t", "e", "T", "i", "m", "e", "O", "r", "i",
      "g", "i", "n", "a", "l">>

K_FileModifyDate == <<"F", "i", "l", "e", "M", "o", "d", "i", "f", "y", "D",
      "a", "t", "e">>

K_VideoFrameRate == <<"V", "i", "d", "e", "o", "F", "r", "a", "m", "e", "R",
      "a", "t", "e">>

K_Error == <<"E", "r", "r", "o", "r">>

\* is_movie(exif): some key contains 'FrameRate'
FrameRate == <<"F", "r", "a", "m", "e", "R", "a", "t", "e">>

\* is_movie looking for a key that is FrameRate
is_movie_exact(exif) == FrameRate \in DOMAIN exif

is_movie(exif) == \E key \in DOMAIN exif : Contains(key, FrameRate)

\* v.replace(' ', '_') if isinstance(v, str) else v
Underscored(v) ==
  IF v.t = "str"
  THEN Sv([i \in 1..Len(v.s) |-> IF v.s[i] = " " THEN "_" ELSE v.s[i]])
  ELSE v

\* a or b: a when it is truthy, b otherwise
PyOr(a, b) == IF Truthy(a) THEN a ELSE b

\* DateSource with DateTimeOriginal ahead of DateCreated
DateSourceSwapped(exif) ==
  PyOr(Get(exif, K_CreateDate),
       PyOr(Get(exif, K_DateTimeOriginal),
            PyOr(Get(exif, K_DateCreated), Get(exif, K_FileModifyDate))))

\* DateSource going on to the next field when a value does not parse
DateSourceFirstParsable(exif) ==
  LET Parses(v) == Truthy(v) /\ parse_datetime(v) # ZeroDate
  IN  IF Parses(Get(exif, K_CreateDate)) THEN Get(exif, K_CreateDate)
      ELSE IF Parses(Get(exif, K_DateCreated)) THEN Get(exif, K_DateCreated)
      ELSE IF Parses(Get(exif, K_DateTimeOriginal))
      THEN Get(exif, K_DateTimeOriginal)
      ELSE Get(exif, K_FileModifyDate)

\* exif.get('CreateDate') or exif.get('DateCreated') or
\* exif.get('DateTimeOriginal') or exif.get('FileModifyDate')
DateSource(exif) ==
  PyOr(Get(exif, K_CreateDate),
       PyOr(Get(exif, K_DateCreated),
            PyOr(Get(exif, K_DateTimeOriginal), Get(exif, K_FileModifyDate))))

\* The photo_info manipulate_file builds before it asks for the branch
\* number: the record's values, then y m d H M S over them.
NormalizedInfo(exif) ==
  LET dt == parse_datetime(DateSource(exif))
      parts == (<<"y">> :> Sv(dt.y)) @@ (<<"m">> :> Sv(dt.m))
            @@ (<<"d">> :> Sv(dt.d)) @@ (<<"H">> :> Sv(dt.H))
            @@ (<<"M">> :> Sv(dt.M)) @@ (<<"S">> :> Sv(dt.S))
  IN  parts @@ [key \in DOMAIN exif |-> Underscored(exif[key])]

\* Whether x < y raises TypeError (str against a number or None).
Comparable(a, b) == a.t = b.t /\ a.t # "null"

ValueLess(a, b) == IF a.t = "str" THEN StrLess(a.s, b.s) ELSE a.n < b.n

\* sorted(): stable, ascending.  Insert puts x behind every element that is
\* not greater than it.
RECURSIVE Insert(_, _)
Insert(x, sorted) ==
  IF sorted = <<>> THEN <<x>>
  ELSE IF ValueLess(x[K_FileName], Head(sorted)[K_FileName])
  THEN <<x>> \o sorted
  ELSE <<Head(sorted)>> \o Insert(x, Tail(sorted))

RECURSIVE SortedFrom(_, _)
SortedFrom(list, sorted) ==
  IF list = <<>> THEN sorted
  ELSE SortedFrom(Tail(list), Insert(Head(list), sorted))

\* Sorted leaving the records in the order of the array
SortedAsGiven(list) == list

Sorted(list) == SortedFrom(list, <<>>)

\* KeyRaises letting a record without the key through
KeyRaisesNever(x) == FALSE

\* key=lambda x: x['FileName'] raises KeyError for a record without the key
KeyRaises(x) == K_FileName \notin DOMAIN x

\* sorted(json.loads(input_json), key=lambda x: x['FileName']) raises:
\* KeyError from the key function, TypeError for keys that do not compare.
SortRaises(list) ==
  \/ \E i \in 1..Len(list) : KeyRaises(list[i])
  \/ \E i, j \in 1..Len(list) :
       /\ i # j
       /\ ~Comparable(Get(list[i], K_FileName), Get(list[j], K_FileName))

\* os.environ.get('HOME') joined with 'OutBox'
PATH_TO_EXIF_TOOL == <<"/", "u", "s", "r", "/", "l", "o", "c", "a", "l", "/",
      "b", "i", "n", "/", "e", "x", "i", "f", "t", "o", "o", "l">>

DEFAULT_OUTPUT_BASE_PATH == <<"/", "h", "/", "O", "u", "t", "B", "o", "x">>

\* load_configure: the options of setting.ini, each with its default.
Option(setting, name, default) ==
  IF name \in DOMAIN setting THEN setting[name] ELSE default

load_configure(setting) ==
  [filename_format |->
     Option(setting, "filename_format", DEFAULT_FILENAME_FORMAT),
   output_photo_base |->
     Option(setting, "output_photo_base", DEFAULT_OUTPUT_BASE_PATH),
   output_video_base |->
     Option(setting, "output_video_base", DEFAULT_OUTPUT_BASE_PATH)]

\* The directories above a path.
Ancestors(path) ==
  {SubSeq(path, 1, i - 1) : i \in {j \in 2..Len(path) : path[j] = "/"}}

(***************************************************************************)
(* The inputs of a run: the records of the metadata JSON, setting.ini, the *)
(* move flag and the files already in place.                               *)
(***************************************************************************)
MaxBatch == 2

MaxBn == 2

D_Plain == <<"2", "0", "2", "0", ":", "0", "1", ":", "0", "2", " ", "0", "3",
      ":", "0", "4", ":", "0", "5">>

D_Zone == <<"2", "0", "2", "0", ":", "0", "1", ":", "0", "2", " ", "0", "3",
      ":", "0", "4", ":", "0", "5", "+", "0", "9", ":", "0", "0">>

D_Dashes == <<"2", "0", "2", "0", "-", "0", "1", "-", "0", "2", " ", "0", "3",
      ":", "0", "4", ":", "0", "5">>

\* a.jpg and b.jpg: two photos of one camera taken in the same second
RA ==
  (K_SourceFile :> Sv(<<"/", "s", "/", "a", ".", "j", "p", "g">>))
  @@ (K_FileName :> Sv(<<"a", ".", "j", "p", "g">>))
  @@ (K_Model :> Sv(<<"X", " ", "1">>))
  @@ (K_FileTypeExtension :> Sv(<<"j", "p", "g">>))
  @@ (K_CreateDate :> Sv(D_Plain))

RB ==
  (K_SourceFile :> Sv(<<"/", "s", "/", "b", ".", "j", "p", "g">>))
  @@ (K_FileName :> Sv(<<"b", ".", "j", "p", "g">>))
  @@ (K_Model :> Sv(<<"X", " ", "1">>))
  @@ (K_FileTypeExtension :> Sv(<<"j", "p", "g">>))
  @@ (K_CreateDate :> Sv(<<>>))
  @@ (K_DateTimeOriginal :> Sv(D_Zone))

\* c.jpg: no Model, a CreateDate strptime rejects, a good FileModifyDate
RC ==
  (K_SourceFile :> Sv(<<"/", "s", "/", "c", ".", "j", "p", "g">>))
  @@ (K_FileName :> Sv(<<"c", ".", "j", "p", "g">>))
  @@ (K_FileTypeExtension :> Sv(<<"j", "p", "g">>))
  @@ (K_CreateDate :> Sv(D_Dashes))
  @@ (K_FileModifyDate :> Sv(D_Zone))

\* d.jpg: no Model and no date at all
RD ==
  (K_SourceFile :> Sv(<<"/", "s", "/", "d", ".", "j", "p", "g">>))
  @@ (K_FileName :> Sv(<<"d", ".", "j", "p", "g">>))
  @@ (K_FileTypeExtension :> Sv(<<"j", "p", "g">>))

\* v.mov: a video of the same camera and second
RV ==
  (K_SourceFile :> Sv(<<"/", "s", "/", "v", ".", "m", "o", "v">>))
  @@ (K_FileName :> Sv(<<"v", ".", "m", "o", "v">>))
  @@ (K_Model :> Sv(<<"X", " ", "1">>))
  @@ (K_FileTypeExtension :> Sv(<<"m", "o", "v">>))
  @@ (K_VideoFrameRate :> Nv(30))
  @@ (K_FileModifyDate :> Sv(D_Zone))

\* Records the extraction tool tagged with Error: one with nothing but its
\* SourceFile, one that names its file.
RE ==
  (K_SourceFile :> Sv(<<"/", "s", "/", "e", ".", "t", "x", "t">>))
  @@ (K_Error :> Sv(<<"F", "i", "l", "e", " ", "n", "o", "t", " ", "f", "o",
        "u", "n", "d">>))

RF ==
  (K_SourceFile :> Sv(<<"/", "s", "/", "f", ".", "t", "x", "t">>))
  @@ (K_FileName :> Sv(<<"f", ".", "t", "x", "t">>))
  @@ (K_Error :> Sv(<<"U", "n", "k", "n", "o", "w", "n", " ", "f", "i", "l",
        "e", " ", "t", "y", "p", "e">>))

Records == {RA, RB, RC, RD, RV, RE, RF}

\* Valid records a run fails over: n.jpg, whose source file is not there;
\* m.jpg, which names no source; one without FileName.
RN ==
  (K_SourceFile :> Sv(<<"/", "s", "/", "n", ".", "j", "p", "g">>))
  @@ (K_FileName :> Sv(<<"n", ".", "j", "p", "g">>))
  @@ (K_Model :> Sv(<<"X", " ", "1">>))
  @@ (K_FileTypeExtension :> Sv(<<"j", "p", "g">>))
  @@ (K_CreateDate :> Sv(D_Plain))

RM ==
  (K_FileName :> Sv(<<"m", ".", "j", "p", "g">>))
  @@ (K_Model :> Sv(<<"X", " ", "1">>))
  @@ (K_FileTypeExtension :> Sv(<<"j", "p", "g">>))
  @@ (K_CreateDate :> Sv(D_Plain))

RW ==
  (K_SourceFile :> Sv(<<"/", "s", "/", "w", ".", "j", "p", "g">>))
  @@ (K_Model :> Sv(<<"X", " ", "1">>))
  @@ (K_FileTypeExtension :> Sv(<<"j", "p", "g">>))
  @@ (K_CreateDate :> Sv(D_Plain))

\* s.jpg of a camera whose name holds an asterisk.
RS ==
  (K_SourceFile :> Sv(<<"/", "s", "/", "s", ".", "j", "p", "g">>))
  @@ (K_FileName :> Sv(<<"s", ".", "j", "p", "g">>))
  @@ (K_Model :> Sv(<<"X", "*", "1">>))
  @@ (K_FileTypeExtension :> Sv(<<"j", "p", "g">>))
  @@ (K_CreateDate :> Sv(D_Plain))

PatternBatches ==
  UNION {{b \in [1..n -> {RA, RS, RV, RF}] :
            \A x, y \in 1..n : x # y => b[x] # b[y]}
         : n \in 0..(MaxBatch + 1)}

FaultBatches ==
  UNION {{b \in [1..n -> {RA, RB, RD, RF, RN, RM, RW}] :
            \A x, y \in 1..n : x # y => b[x] # b[y]}
         : n \in 0..(MaxBatch + 1)}

\* The four date fields in the order manipulate_file asks for them.
DateKeys ==
  <<K_CreateDate, K_DateCreated, K_DateTimeOriginal, K_FileModifyDate>>

\* What a date field of a record may hold: nothing (the key is absent), the
\* empty text, the numbers 0 and 5, a date of the field's own year, a date
\* strptime rejects.
DateChoices == {"absent", "empty", "zero", "number", "good", "bad"}

GoodDate(k) ==
  <<"2", "0", "2", IntToStr(k)[1]>>
  \o <<":", "0", "1", ":", "0", "2", " ", "0", "3", ":", "0", "4", ":", "0",
        "5">>

DateValue(k, choice) ==
  CASE choice = "empty" -> Sv(<<>>)
    [] choice = "zero" -> Nv(0)
    [] choice = "number" -> Nv(5)
    [] choice = "good" -> Sv(GoodDate(k))
    [] choice = "bad" -> Sv(D_Dashes)

\* a.jpg without a Model, its date fields as chosen
DateRecord(choice) ==
  [key \in {DateKeys[k] : k \in {j \in 1..4 : choice[j] # "absent"}} |->
     DateValue(CHOOSE k \in 1..4 : DateKeys[k] = key,
               choice[CHOOSE k \in 1..4 : DateKeys[k] = key])]
  @@ (K_SourceFile :> RA[K_SourceFile]) @@ (K_FileName :> RA[K_FileName])
  @@ (K_FileTypeExtension :> RA[K_FileTypeExtension])

DateRecords == {DateRecord(choice) : choice \in [1..4 -> DateChoices]}

\* The arrays the JSON may hold: up to MaxBatch records, each file once.
Batches ==
  UNION {{b \in [1..n -> Records] : \A x, y \in 1..n : x # y => b[x] # b[y]}
         : n \in 0..MaxBatch}

\* input_json: the empty text, or the text of an array.
InputJsons ==
  {[empty |-> TRUE, array |-> <<>>]}
  \cup {[empty |-> FALSE, array |-> b] : b \in Batches}

\* setting.ini of the source directory: absent, or naming a video root.
VideoRoot == <<"/", "v">>

Settings == {<<>>, ("output_video_base" :> VideoRoot)}

\* Files in place before the run.  Under the default root, files of the
\* name a.jpg and b.jpg render to, at any branch numbers up to MaxBn; or one
\* other file, alone or beside the file at number 0: one whose branch field
\* is not a number, one under the Unknown model of the zero date, or one
\* under the video root.
OldContent == <<"o", "l", "d">>

PlacePrefix == <<"/", "h", "/", "O", "u", "t", "B", "o", "x", "/", "2", "0",
      "2", "0", "0", "1", "0", "2", "/", "X", "_", "1", "/", "2", "0", "2",
      "0", "0", "1", "0", "2", "0", "3", "0", "4", "0", "5", "-">>

PlaceAt(k) == PlacePrefix \o IntToStr(k) \o <<".", "j", "p", "g">>

OddPlace == PlacePrefix \o <<"1", "x", ".", "j", "p", "g">>

UnknownPlace == <<"/", "h", "/", "O", "u", "t", "B", "o", "x", "/", "0", "0",
      "0", "0", "0", "0", "0", "0", "/", "U", "n", "k", "n", "o", "w", "n",
      "/", "0", "0", "0", "0", "0", "0", "0", "0", "0", "0", "0", "0", "0",
      "0", "-", "0", ".", "j", "p", "g">>

VideoRootPlace == <<"/", "v", "/", "2", "0", "2", "0", "0", "1", "0", "2",
      "/", "X", "_", "1", "/", "2", "0", "2", "0", "0", "1", "0", "2", "0",
      "3", "0", "4", "0", "5", "-", "0", ".", "j", "p", "g">>

\* A file where the directory of the day is to be made.
BlockingFile == <<"/", "h", "/", "O", "u", "t", "B", "o", "x", "/", "2", "0",
      "2", "0", "0", "1", "0", "2">>

\* The file a camera named X1 left at number 0, at the time of a.jpg.
NeighbourPlace == <<"/", "h", "/", "O", "u", "t", "B", "o", "x", "/", "2", "0",
      "2", "0", "0", "1", "0", "2", "/", "X", "1", "/", "2", "0", "2", "0",
      "0", "1", "0", "2", "0", "3", "0", "4", "0", "5", "-", "0", ".", "j",
      "p", "g">>

Trees ==
  {{PlaceAt(k) : k \in inUse} : inUse \in SUBSET (0..MaxBn)}
  \cup {beside \cup {extra} :
          beside \in {{}, {PlaceAt(0)}},
          extra \in {OddPlace, UnknownPlace, VideoRootPlace}}

\* The source files that exist: each record's but that of RE, whose file
\* the tool did not find.
SourceFiles == {r[K_SourceFile].s : r \in (Records \cup {RS}) \ {RE}}

InitialFiles(tree) ==
  [path \in SourceFiles \cup tree |->
     IF path \in tree THEN OldContent ELSE path]

(***************************************************************************)
(* State                                                                   *)
(***************************************************************************)
VARIABLES
  input_json,        \* main's argument
  is_move,           \* main's argument
  setting,           \* the options of setting.ini
  fs,                \* the files: path -> content
  dirs,              \* the directories
  pc,                \* where the run is
  exc,               \* the exception that ended the run, if one did
  exifs,             \* main: the sorted records
  configurations,    \* main: what load_configure returned
  index,             \* main: the position of the for loop in exifs
  output_base_path,  \* manipulate_file's argument
  photo_info,        \* manipulate_file: the defaultdict
  new_path,          \* manipulate_file: the destination
  files,             \* branch_no: what glob.glob returned and the loop has
                     \* not visited yet
  bn,                \* branch_no: the largest number seen
  stdout,            \* the lines printed
  placed,            \* history: the copies and moves done, in order
  other,             \* a second instance of the program, while the
                     \* variables above hold the one that is running
  args,              \* __main__: the options of the command line
  res                \* make_exif_json: the exit status of the tool, once
                     \* it has run

vars ==
  <<input_json, is_move, setting, fs, dirs, pc, exc, exifs, configurations,
    index, output_base_path, photo_info, new_path, files, bn, stdout,
    placed, other, args, res>>

NoConfigurations ==
  [filename_format |-> <<>>, output_photo_base |-> <<>>,
   output_video_base |-> <<>>]

\* What an instance has of its own: its arguments, where it is, the
\* variables of its functions, what it printed.  The files, the directories
\* and setting.ini it shares with the other.
Instance(json, move) ==
  [input_json |-> json, is_move |-> move, pc |-> "main", exc |-> "none",
   exifs |-> <<>>, configurations |-> NoConfigurations, index |-> 0,
   output_base_path |-> <<>>, photo_info |-> <<>>, new_path |-> <<>>,
   files |-> {}, bn |-> 0, stdout |-> <<>>]

\* No second instance was started.
NoOther ==
  [Instance([empty |-> TRUE, array |-> <<>>], FALSE) EXCEPT !.pc = "absent"]

\* Nothing computed, printed or placed.
Fresh ==
  /\ exc = "none"
  /\ exifs = <<>>
  /\ configurations = NoConfigurations
  /\ index = 0
  /\ output_base_path = <<>>
  /\ photo_info = <<>>
  /\ new_path = <<>>
  /\ files = {}
  /\ bn = 0
  /\ stdout = <<>>
  /\ placed = <<>>

\* This instance has not begun.
Started ==
  /\ pc = "main"
  /\ args = [source_dir |-> <<>>, path_to_exif_tool |-> <<>>, move |-> FALSE]
  /\ res = <<>>
  /\ Fresh

\* Nothing has run yet.
AtStart ==
  /\ other = NoOther
  /\ Started

FilesAndDirs(tree) ==
  /\ fs = InitialFiles(tree)
  /\ dirs = UNION {Ancestors(path) : path \in SourceFiles \cup tree}

Init ==
  /\ input_json \in InputJsons
  /\ is_move \in BOOLEAN
  /\ setting \in Settings
  /\ \E tree \in Trees : FilesAndDirs(tree)
  /\ AtStart

\* Runs over d.jpg and a record with any choice of date fields, given in
\* this order, into an empty tree; and the runs over the empty text and
\* over a record tagged with Error.
InitDates ==
  /\ input_json \in
       {[empty |-> TRUE, array |-> <<>>], [empty |-> FALSE, array |-> <<RF>>]}
       \cup {[empty |-> FALSE, array |-> <<RD, r>>] : r \in DateRecords}
  /\ is_move \in BOOLEAN
  /\ setting = <<>>
  /\ FilesAndDirs({})
  /\ AtStart

\* Runs over batches with records that fail, into trees that fail.
InitFaults ==
  /\ input_json \in
       {[empty |-> TRUE, array |-> <<>>]}
       \cup {[empty |-> FALSE, array |-> b] : b \in FaultBatches}
  /\ is_move \in BOOLEAN
  /\ setting = <<>>
  /\ \E tree \in {{}, {OddPlace}, {PlaceAt(0), OddPlace}, {BlockingFile}} :
       FilesAndDirs(tree)
  /\ AtStart

\* Runs over records of cameras with and without an asterisk in the name,
\* into trees that hold a file of a camera of a like name.
InitPatterns ==
  /\ input_json \in
       {[empty |-> TRUE, array |-> <<>>]}
       \cup {[empty |-> FALSE, array |-> b] : b \in PatternBatches}
  /\ is_move \in BOOLEAN
  /\ setting \in Settings
  /\ \E tree \in {{}, {NeighbourPlace}, {PlaceAt(0)},
                   {PlaceAt(0), NeighbourPlace}, {VideoRootPlace}} :
       FilesAndDirs(tree)
  /\ AtStart

\* Two instances started together on the same tree: one given nothing, a.jpg
\* or a.jpg with a record the tool failed on, the other b.jpg, which
\* renders to the path of a.jpg.
InitTwo ==
  /\ input_json \in
       {[empty |-> TRUE, array |-> <<>>],
        [empty |-> FALSE, array |-> <<RA>>],
        [empty |-> FALSE, array |-> <<RF, RA>>]}
  /\ is_move \in BOOLEAN
  /\ setting = <<>>
  /\ \E tree \in {{}, {PlaceAt(0)}} : FilesAndDirs(tree)
  /\ \E move \in BOOLEAN :
       other = Instance([empty |-> FALSE, array |-> <<RB>>], move)
  /\ Started

\* What no step of a run changes: its arguments but the JSON, the setting,
\* the instance that is not running.
inputs == <<is_move, setting, other, args, res>>

locals == <<output_base_path, photo_info, new_path, files, bn>>

\* Raise caught in the loop of main, which goes on
RaiseAndGoOn(name) == pc' = "for" /\ exc' = name

\* An exception nothing catches: the run ends with it.
Raise(name) == pc' = "raised" /\ exc' = name

(***************************************************************************)
(* main                                                                    *)
(***************************************************************************)
\* lines 144-145: if not input_json: return
MainEmpty ==
  /\ pc = "main"
  /\ input_json.empty
  /\ pc' = "returned"
  /\ UNCHANGED <<input_json, inputs, fs, dirs, exc, exifs, configurations,
                 index, locals, stdout, placed>>

\* line 147: exifs = sorted(json.loads(input_json), key=...)
SortExifs ==
  /\ pc = "main"
  /\ ~input_json.empty
  /\ IF SortRaises(input_json.array)
     THEN /\ Raise("sorted")
          /\ UNCHANGED exifs
     ELSE /\ exifs' = Sorted(input_json.array)
          /\ pc' = "load_configure"
          /\ UNCHANGED exc
  /\ UNCHANGED <<input_json, inputs, fs, dirs, configurations, index, locals,
                 stdout, placed>>

\* lines 148-149
LoadConfigure ==
  /\ pc = "load_configure"
  /\ configurations' = load_configure(setting)
  /\ index' = 1
  /\ pc' = "for"
  /\ UNCHANGED <<input_json, inputs, fs, dirs, exc, exifs, locals, stdout,
                 placed>>

\* ForEnd leaving the loop ahead of the last record
ForEndEarly ==
  /\ pc = "for"
  /\ index >= Len(exifs)
  /\ pc' = "returned"
  /\ UNCHANGED <<input_json, inputs, fs, dirs, exc, exifs, configurations,
                 index, locals, stdout, placed>>

\* line 150, the list exhausted: main returns
ForEnd ==
  /\ pc = "for"
  /\ index > Len(exifs)
  /\ pc' = "returned"
  /\ UNCHANGED <<input_json, inputs, fs, dirs, exc, exifs, configurations,
                 index, locals, stdout, placed>>

\* lines 151-152: if 'Error' in exif: continue
SkipError ==
  /\ pc = "for"
  /\ index <= Len(exifs)
  /\ K_Error \in DOMAIN exifs[index]
  /\ index' = index + 1
  /\ UNCHANGED <<input_json, inputs, fs, dirs, pc, exc, exifs, configurations,
                 locals, stdout, placed>>

\* lines 153-156: the root the record goes under
OutputBasePath(exif, conf) ==
  IF is_movie(exif) THEN conf.output_video_base ELSE conf.output_photo_base

\* lines 153-157: the call of manipulate_file
CallManipulateFile ==
  /\ pc = "for"
  /\ index <= Len(exifs)
  /\ K_Error \notin DOMAIN exifs[index]
  /\ output_base_path' = OutputBasePath(exifs[index], configurations)
  /\ pc' = "photo_info"
  /\ UNCHANGED <<input_json, inputs, fs, dirs, exc, exifs, configurations,
                 index, photo_info, new_path, files, bn, stdout, placed>>

(***************************************************************************)
(* manipulate_file(exifs[index], output_base_path, filename_format,        *)
(* is_move)                                                                *)
(***************************************************************************)
\* lines 84-94
BuildPhotoInfo ==
  /\ pc = "photo_info"
  /\ photo_info' = NormalizedInfo(exifs[index])
  /\ pc' = "branch_no"
  /\ UNCHANGED <<input_json, inputs, fs, dirs, exc, exifs, configurations,
                 index, output_base_path, new_path, files, bn, stdout,
                 placed>>

\* What the glob of branch_no sees.
Entries == DOMAIN fs \cup dirs

\* branch_no, lines 51-59: the glob, and the return of 0 when nothing
\* matches (the caller stores it, line 96).  The look-ups of vformat leave
\* their defaults in photo_info.
BranchNoGlob ==
  /\ pc = "branch_no"
  /\ LET format == configurations.filename_format
         found == Glob(GlobPattern(output_base_path, format, photo_info),
                       Entries)
         looked == Touched(Store(photo_info, K_bn, Sv(GlobDigits)), format)
     IN  /\ files' = found
         /\ IF found = {}
            THEN /\ photo_info' = Store(looked, K_bn, Nv(0))
                 /\ pc' = "new_path"
            ELSE /\ photo_info' = Store(looked, K_bn, Sv(ReDigits))
                 /\ pc' = "for_fn"
  /\ UNCHANGED <<input_json, inputs, fs, dirs, exc, exifs, configurations,
                 index, output_base_path, new_path, bn, stdout, placed>>

\* BranchNoLoop passing over a path that gives no number
BranchNoLoopSkipping ==
  /\ pc = "for_fn"
  /\ \E fn \in files :
       LET m == ReSearch(BnSearch(configurations.filename_format, photo_info),
                         fn)
       IN  /\ bn' = IF GroupRaises(m) THEN bn ELSE NextBn(bn, m)
           /\ files' = files \ {fn}
  /\ UNCHANGED <<input_json, inputs, fs, dirs, pc, exc, exifs,
                 configurations, index, output_base_path, photo_info,
                 new_path, stdout, placed>>

\* branch_no, lines 61-63: one turn of the loop over the matched paths, which
\* glob returns in the order the directory lists them, any order
BranchNoLoop ==
  /\ pc = "for_fn"
  /\ \E fn \in files :
       LET m == ReSearch(BnSearch(configurations.filename_format, photo_info),
                         fn)
       IN  IF GroupRaises(m)
           THEN /\ Raise("branch_no")
                /\ UNCHANGED <<files, bn>>
           ELSE /\ bn' = NextBn(bn, m)
                /\ files' = files \ {fn}
                /\ UNCHANGED <<pc, exc>>
  /\ UNCHANGED <<input_json, inputs, fs, dirs, exifs, configurations, index,
                 output_base_path, photo_info, new_path, stdout, placed>>

\* branch_no, line 64, and line 96 of the caller
BranchNoReturn ==
  /\ pc = "for_fn"
  /\ files = {}
  /\ photo_info' = Store(photo_info, K_bn, Nv(BranchNoResult(bn)))
  /\ bn' = 0
  /\ pc' = "new_path"
  /\ UNCHANGED <<input_json, inputs, fs, dirs, exc, exifs, configurations,
                 index, output_base_path, new_path, files, stdout, placed>>

\* lines 99-100
RenderNewPath ==
  /\ pc = "new_path"
  /\ new_path' = PathJoin(output_base_path,
                          vformat(configurations.filename_format, photo_info))
  /\ photo_info' = Touched(photo_info, configurations.filename_format)
  /\ pc' = "makedirs"
  /\ UNCHANGED <<input_json, inputs, fs, dirs, exc, exifs, configurations,
                 index, output_base_path, files, bn, stdout, placed>>

\* MakeDirs making no directory
MakeDirsNever ==
  /\ pc = "makedirs"
  /\ pc' = "print"
  /\ UNCHANGED <<input_json, inputs, fs, dirs, exc, exifs, configurations,
                 index, locals, stdout, placed>>

\* lines 103-104: os.makedirs of the parent unless it exists; it raises
\* when a file is in the way
MakeDirs ==
  /\ pc = "makedirs"
  /\ LET parent == Dirname(new_path) IN
     IF parent \in Entries
     THEN /\ pc' = "print"
          /\ UNCHANGED <<dirs, exc>>
     ELSE IF Ancestors(new_path) \cap DOMAIN fs # {}
     THEN /\ Raise("makedirs")
          /\ UNCHANGED dirs
     ELSE /\ dirs' = dirs \cup Ancestors(new_path)
          /\ pc' = "print"
          /\ UNCHANGED exc
  /\ UNCHANGED <<input_json, inputs, fs, exifs, configurations, index,
                 locals, stdout, placed>>

\* lines 106-107
PrintStatus ==
  /\ pc = "print"
  /\ stdout' = Append(stdout,
                      [action |-> IF is_move THEN "Move" ELSE "Copy",
                       src_path |-> Get(exifs[index], K_SourceFile),
                       new_path |-> new_path])
  /\ pc' = "manipulate"
  /\ UNCHANGED <<input_json, inputs, fs, dirs, exc, exifs, configurations,
                 index, locals, placed>>

\* os.path.basename
Basename(path) == Drop(path, LastSlash(path, Len(path)) + 1)

\* Where shutil.move and shutil.copyfile write: move puts the file inside a
\* destination that is a directory.
RealDst(src, dst, move, ds) ==
  IF move /\ dst \in ds THEN PathJoin(dst, Basename(src)) ELSE dst

\* shutil.copyfile(src, dst) and shutil.move(src, dst) raise: no source
\* path, no such source file, no parent directory, a directory where the
\* file is to be written, a copy onto itself, a move into a directory that
\* has the name.
ManipulateRaises(src_path, dst, move, tree, ds) ==
  \/ src_path.t # "str"
  \/ src_path.s \notin DOMAIN tree
  \/ Dirname(RealDst(src_path.s, dst, move, ds)) \notin ds
  \/ RealDst(src_path.s, dst, move, ds) \in ds
  \/ ~move /\ src_path.s = dst
  \/ move /\ dst \in ds /\ RealDst(src_path.s, dst, move, ds) \in DOMAIN tree

\* Manipulated leaving the source of a move in place
ManipulatedAsCopy(src, dst, move, tree) ==
  [path \in DOMAIN tree \cup {dst}
     |-> IF path = dst THEN tree[src] ELSE tree[path]]

\* The files after the copy or the move: the destination holds the source's
\* content, whatever was there; move takes the source away.
Manipulated(src, dst, move, tree) ==
  [path \in (IF move THEN DOMAIN tree \ {src} ELSE DOMAIN tree) \cup {dst}
     |-> IF path = dst THEN tree[src] ELSE tree[path]]

\* lines 110-111, and the return to the loop of main
Manipulate ==
  /\ pc = "manipulate"
  /\ LET src_path == Get(exifs[index], K_SourceFile) IN
     IF ManipulateRaises(src_path, new_path, is_move, fs, dirs)
     THEN /\ Raise("manipulate")
          /\ UNCHANGED <<fs, index, locals, placed>>
     ELSE LET dst == RealDst(src_path.s, new_path, is_move, dirs) IN
          /\ fs' = Manipulated(src_path.s, dst, is_move, fs)
          /\ placed' = Append(placed,
                              [index |-> index, src |-> src_path.s,
                               dst |-> dst, bn |-> photo_info[K_bn].n,
                               existed |-> dst \in Entries,
                               content |-> fs[src_path.s]])
          /\ index' = index + 1
          /\ output_base_path' = <<>>
          /\ photo_info' = <<>>
          /\ new_path' = <<>>
          /\ pc' = "for"
          /\ UNCHANGED <<files, bn>>
          /\ UNCHANGED exc
  /\ UNCHANGED <<input_json, inputs, dirs, exifs, configurations, stdout>>

Next ==
  \/ MainEmpty
  \/ SortExifs
  \/ LoadConfigure
  \/ ForEnd
  \/ SkipError
  \/ CallManipulateFile
  \/ BuildPhotoInfo
  \/ BranchNoGlob
  \/ BranchNoLoop
  \/ BranchNoReturn
  \/ RenderNewPath
  \/ MakeDirs
  \/ PrintStatus
  \/ Manipulate

Spec == Init /\ [][Next]_vars

\* The scheduler takes the processor from the running instance and gives it
\* to the other, between any two steps, as long as the other has a step to
\* take.
Switch ==
  /\ other.pc \notin {"absent", "returned", "raised"}
  /\ other' = [input_json |-> input_json, is_move |-> is_move, pc |-> pc,
               exc |-> exc, exifs |-> exifs,
               configurations |-> configurations, index |-> index,
               output_base_path |-> output_base_path,
               photo_info |-> photo_info, new_path |-> new_path,
               files |-> files, bn |-> bn, stdout |-> stdout]
  /\ input_json' = other.input_json
  /\ is_move' = other.is_move
  /\ pc' = other.pc
  /\ exc' = other.exc
  /\ exifs' = other.exifs
  /\ configurations' = other.configurations
  /\ index' = other.index
  /\ output_base_path' = other.output_base_path
  /\ photo_info' = other.photo_info
  /\ new_path' = other.new_path
  /\ files' = other.files
  /\ bn' = other.bn
  /\ stdout' = other.stdout
  /\ UNCHANGED <<setting, fs, dirs, placed, args, res>>

SpecTwo == InitTwo /\ [][Next \/ Switch]_vars

(***************************************************************************)
(* __main__ and make_exif_json                                             *)
(***************************************************************************)
\* The directory given with -s.
SourceDir == <<"/", "s">>

\* lines 124-126; the time of datetime.now() is the one of this run.
LogRootDir == <<"/", "t", "m", "p", "/", "p", "h", "o", "t", "o", "_", "o",
      "r", "g", "a", "n", "i", "z", "e", "r">>

LogFileBase == LogRootDir \o <<"/", "2", "0", "2", "0", "0", "1", "0", "2",
      "-", "0", "3", "0", "4", "0", "5">>

JsonOut == LogFileBase \o <<".", "j", "s", "o", "n">>

CmdLog == LogFileBase \o <<"_", "c", "m", "d", ".", "l", "o", "g">>

\* line 130
Command(source_dir, path_to_exif_tool) ==
  path_to_exif_tool \o <<" ", "-", "a", "p", "i", " ", "l", "a", "r", "g",
      "e", "f", "i", "l", "e", "s", "u", "p", "p", "o", "r", "t", "=", "1",
      " ", "-", "r", " ", "-", "j", " ">>
  \o source_dir \o <<" ", ">", " ">> \o JsonOut

\* The file named on the standard input, when there is one.
StdinJson == <<"/", "s", "/", "e", "x", "i", "f", ".", "j", "s", "o", "n">>

\* What a metadata JSON file may hold: nothing, a.jpg, a.jpg after a file the
\* tool could not read.
JsonTexts ==
  {[empty |-> TRUE, array |-> <<>>],
   [empty |-> FALSE, array |-> <<RA>>],
   [empty |-> FALSE, array |-> <<RF, RA>>]}

\* The command line: -s with a directory or not, -m or not, -e left to its
\* default.
ArgsChoices ==
  {[source_dir |-> dir, path_to_exif_tool |-> PATH_TO_EXIF_TOOL,
    move |-> move] : dir \in {<<>>, SourceDir}, move \in BOOLEAN}

\* The files before the program starts: the sources and the tree, the tool
\* when it is installed, the JSON file named on the standard input when
\* one is.
InitEntry ==
  /\ args \in ArgsChoices
  /\ res = <<>>
  /\ input_json = [empty |-> TRUE, array |-> <<>>]
  /\ is_move = FALSE
  /\ setting = <<>>
  /\ \E tree \in {{}, {PlaceAt(0)}},
        tools \in SUBSET {PATH_TO_EXIF_TOOL},
        texts \in {{}} \cup {{text} : text \in JsonTexts} :
       LET given == IF args.source_dir = <<>> THEN texts ELSE {}
           paths == SourceFiles \cup tree \cup tools
                    \cup {StdinJson : text \in given}
       IN  /\ fs = [path \in paths |->
                      IF path = StdinJson THEN CHOOSE text \in given : TRUE
                      ELSE IF path \in SourceFiles THEN path
                      ELSE OldContent]
           /\ dirs = UNION {Ancestors(path) : path \in paths}
  /\ other = NoOther
  /\ pc = "__main__"
  /\ Fresh

\* lines 180-184: -s was given
EntrySourceDir ==
  /\ pc = "__main__"
  /\ Truthy(Sv(args.source_dir))
  /\ is_move' = args.move
  /\ pc' = "make_exif_json"
  /\ UNCHANGED <<input_json, setting, fs, dirs, exc, exifs, configurations,
                 index, locals, stdout, placed, other, args, res>>

\* lines 185-188: the path of the JSON file comes from the standard input,
\* and the file is read
EntryStdin ==
  /\ pc = "__main__"
  /\ ~Truthy(Sv(args.source_dir))
  /\ IF StdinJson \in DOMAIN fs
     THEN /\ input_json' = fs[StdinJson]
          /\ pc' = "main"
          /\ UNCHANGED exc
     ELSE /\ Raise("open")
          /\ UNCHANGED input_json
  /\ UNCHANGED <<inputs, fs, dirs, exifs, configurations, index, locals,
                 stdout, placed>>

\* make_exif_json with no look at the tool
MakeExifJsonUnchecked ==
  /\ pc = "make_exif_json"
  /\ pc' = "makedirs_log"
  /\ UNCHANGED <<input_json, inputs, fs, dirs, exc, exifs, configurations,
                 index, locals, stdout, placed>>

\* lines 121-122
MakeExifJson ==
  /\ pc = "make_exif_json"
  /\ IF args.path_to_exif_tool \in DOMAIN fs
     THEN pc' = "makedirs_log" /\ UNCHANGED exc
     ELSE Raise("make_exif_json")
  /\ UNCHANGED <<input_json, inputs, fs, dirs, exifs, configurations, index,
                 locals, stdout, placed>>

\* line 128: os.makedirs(log_root_dir, exist_ok=True)
MakeLogDir ==
  /\ pc = "makedirs_log"
  /\ dirs' = dirs \cup Ancestors(JsonOut)
  /\ pc' = "cmd_log"
  /\ UNCHANGED <<input_json, inputs, fs, exc, exifs, configurations, index,
                 locals, stdout, placed>>

\* lines 130-132
WriteCmdLog ==
  /\ pc = "cmd_log"
  /\ fs' = (CmdLog :> Command(args.source_dir, args.path_to_exif_tool)) @@ fs
  /\ pc' = "run"
  /\ UNCHANGED <<input_json, inputs, dirs, exc, exifs, configurations, index,
                 locals, stdout, placed>>

\* RunTool taking a tool that fails for an error
RunToolRaising ==
  /\ pc = "run"
  /\ \E code \in {0, 1}, text \in JsonTexts :
       /\ res' = <<code>>
       /\ fs' = (JsonOut :> text) @@ fs
       /\ IF code # 0
          THEN Raise("run")
          ELSE pc' = "open" /\ UNCHANGED exc
  /\ UNCHANGED <<input_json, is_move, setting, other, args, dirs, exifs,
                 configurations, index, locals, stdout, placed>>

\* lines 134-139: the shell makes the file of the redirection and runs the
\* tool, which writes what it writes and ends with the status it ends with;
\* the status is looked at and passed over.
RunTool ==
  /\ pc = "run"
  /\ \E code \in {0, 1}, text \in JsonTexts :
       /\ res' = <<code>>
       /\ fs' = (JsonOut :> text) @@ fs
  /\ pc' = "open"
  /\ UNCHANGED <<input_json, is_move, setting, other, args, dirs, exc, exifs,
                 configurations, index, locals, stdout, placed>>

\* line 188: open(input_json).read(), and the call of main
ReadJson ==
  /\ pc = "open"
  /\ input_json' = fs[JsonOut]
  /\ pc' = "main"
  /\ UNCHANGED <<inputs, fs, dirs, exc, exifs, configurations, index, locals,
                 stdout, placed>>

NextEntry ==
  \/ EntrySourceDir
  \/ EntryStdin
  \/ MakeExifJson
  \/ MakeLogDir
  \/ WriteCmdLog
  \/ RunTool
  \/ ReadJson
  \/ Next

SpecEntry == InitEntry /\ [][NextEntry]_vars

SpecDates == InitDates /\ [][Next]_vars

SpecFaults == InitFaults /\ [][Next]_vars

SpecPatterns == InitPatterns /\ [][Next]_vars


(***************************************************************************)
(* Properties                                                              *)
(***************************************************************************)
\* Branch numbers a run over these inputs can reach.
BnLimit == MaxBn + MaxBatch + 1

Largest(S) == CHOOSE x \in S : \A y \in S : y <= x

Range(seq) == {seq[i] : i \in DOMAIN seq}

\* The path a record renders to at branch number k.
ConcretePath(exif, conf, k) ==
  PathJoin(OutputBasePath(exif, conf),
           vformat(conf.filename_format,
                   Store(NormalizedInfo(exif), K_bn, Nv(k))))

\* The branch numbers whose path for the record is among the entries: the
\* path is what the template renders to before its bn field, the number,
\* and what it renders to behind the field.
InUse(exif, conf, entries) ==
  LET format == conf.filename_format
      at == CHOOSE i \in 1..Len(format) : format[i] = Field(K_bn)
      info == NormalizedInfo(exif)
      head == PathJoin(OutputBasePath(exif, conf),
                       vformat(SubSeq(format, 1, at - 1), info))
      tail == vformat(SubSeq(format, at + 1, Len(format)), info)
  IN  {k \in 0..BnLimit : head \o IntToStr(k) \o tail \in entries}

\* C1: every copy or move of a run wrote to a path nothing was at just
\* before, so no file that was in place is overwritten and no two records
\* of the run are placed at one path.
C1_NeverOverwrites ==
  \A j \in DOMAIN placed :
    /\ ~placed[j].existed
    /\ \A i \in DOMAIN placed : i # j => placed[i].dst # placed[j].dst

\* Two records placed behind a file that was in place at number 0.
C1_Witness ==
  /\ Len(placed) = 2
  /\ placed[1].dst = PlaceAt(1)
  /\ placed[2].dst = PlaceAt(2)
  /\ PlaceAt(0) \in DOMAIN fs
  /\ fs[PlaceAt(0)] = OldContent

\* C2: when files match the pattern, branch_no returns the largest branch
\* number among them plus one, whatever the set of numbers in use.
C2_MaxPlusOne ==
  pc = "new_path" =>
    LET used == InUse(exifs[index], configurations, Entries)
    IN  used # {} => photo_info[K_bn] = Nv(Largest(used) + 1)

\* Numbers 0 and 2 in use, 1 free: branch_no has returned 3.
C2_Witness ==
  /\ pc = "new_path"
  /\ InUse(exifs[index], configurations, Entries) = {0, 2}
  /\ photo_info[K_bn] = Nv(3)

\* What the record, the configuration and the entries of the file system
\* determine the destination to be.
DestinationOf(exif, conf, entries) ==
  LET used == InUse(exif, conf, entries)
  IN  ConcretePath(exif, conf, IF used = {} THEN 0 ELSE Largest(used) + 1)

\* C3: the destination computed for a record is a function of the record,
\* the configuration and the file system alone, whatever order the matched
\* paths are visited in; and the branch number is 0 when nothing matches.
C3_Deterministic ==
  pc = "makedirs" =>
    /\ new_path = DestinationOf(exifs[index], configurations, Entries)
    /\ InUse(exifs[index], configurations, Entries) = {}
         => photo_info[K_bn] = Nv(0)

\* A destination computed over two matched paths, which the loop may visit
\* in either order.
C3_Witness ==
  /\ pc = "makedirs"
  /\ {PlaceAt(0), PlaceAt(2)} \subseteq DOMAIN fs
  /\ PlaceAt(1) \notin DOMAIN fs
  /\ new_path = PlaceAt(3)

\* The records of the array that are placed under the pattern of exif and
\* whose FileName sorts before its.
Earlier(exif) ==
  LET path == ConcretePath(exif, configurations, 0)
  IN  {r \in Range(input_json.array) :
         /\ K_Error \notin DOMAIN r
         /\ StrLess(r[K_FileName].s, exif[K_FileName].s)
         /\ ConcretePath(r, configurations, 0) = path}

\* The entries before the run placed anything.
EntriesBefore == Entries \ {placed[i].dst : i \in DOMAIN placed}

\* C4: with no matching file in place, the records that render to one
\* pattern get the branch numbers 0, 1, ... in ascending order of FileName,
\* whatever the order of the array: when the loop of main is back from a
\* placement, the record just placed has as its number the count of the
\* records of its pattern that sort before it.
C4_SortedBranches ==
  (pc = "for" /\ placed # <<>>) =>
    LET last == placed[Len(placed)]
        exif == exifs[last.index]
    IN  InUse(exif, configurations, EntriesBefore) = {}
          => last.bn = Cardinality(Earlier(exif))

\* b.jpg ahead of a.jpg in the array: a.jpg at branch 0, b.jpg at 1.
C4_Witness ==
  /\ input_json.array = <<RB, RA>>
  /\ Len(placed) = 2
  /\ placed[1].src = RA[K_SourceFile].s /\ placed[1].bn = 0
  /\ placed[2].src = RB[K_SourceFile].s /\ placed[2].bn = 1

\* The records of the array tagged with Error, and the others.
ErrorRecords == {r \in Range(input_json.array) : K_Error \in DOMAIN r}

ValidRecords == Range(input_json.array) \ ErrorRecords

\* Whether the file system holds for the record's source what it held
\* before the run.
Untouched(r) ==
  LET src == r[K_SourceFile].s
  IN  IF src \in SourceFiles
      THEN src \in DOMAIN fs /\ fs[src] = src
      ELSE src \notin DOMAIN fs

\* C5: a run over a batch that mixes records carrying Error, whatever other
\* keys they have, with valid records does not abort over them, places
\* no Error record and leaves its file alone, and has placed every valid
\* record when it returns.
C5_ErrorRecordsSkipped ==
  (ErrorRecords # {} /\ ValidRecords # {}) =>
    /\ exc = "sorted" => \E r \in ValidRecords : K_FileName \notin DOMAIN r
    /\ \A j \in DOMAIN placed : K_Error \notin DOMAIN exifs[placed[j].index]
    /\ \A r \in ErrorRecords : Untouched(r)
    /\ pc = "returned" =>
         {placed[j].src : j \in DOMAIN placed}
           = {r[K_SourceFile].s : r \in ValidRecords}

\* path lies under the directory root.
Under(root, path) == Take(path, Len(root) + 1) = root \o <<"/">>

\* Whether a key of the record contains FrameRate.
HasFrameRateKey(exif) ==
  \E key \in DOMAIN exif :
    \E p \in 1..(Len(key) - Len(FrameRate) + 1) :
      SubSeq(key, p, p + Len(FrameRate) - 1) = FrameRate

\* One root is the other or lies under it.
RootsOverlap(conf) ==
  \/ conf.output_photo_base = conf.output_video_base
  \/ Under(conf.output_photo_base, conf.output_video_base)
  \/ Under(conf.output_video_base, conf.output_photo_base)

\* C6 as stated: a record is placed under the video root if and only if
\* one of its keys contains FrameRate, and under the photo root otherwise.
C6_VideoRootIff ==
  \A j \in DOMAIN placed :
    LET exif == exifs[placed[j].index]
    IN  /\ Under(configurations.output_video_base, placed[j].dst)
             <=> HasFrameRateKey(exif)
        /\ ~HasFrameRateKey(exif)
             => Under(configurations.output_photo_base, placed[j].dst)

\* C6 amended: a record with a key that contains FrameRate is placed under
\* the video root and any other record under the photo root; the
\* destination lies under the video root only if there is such a key when
\* neither root is the other or lies under it.
C6_Routing ==
  \A j \in DOMAIN placed :
    LET exif == exifs[placed[j].index]
    IN  /\ HasFrameRateKey(exif)
             => Under(configurations.output_video_base, placed[j].dst)
        /\ ~HasFrameRateKey(exif)
             => Under(configurations.output_photo_base, placed[j].dst)
        /\ ~RootsOverlap(configurations)
             => (Under(configurations.output_video_base, placed[j].dst)
                   <=> HasFrameRateKey(exif))

\* The video and a photo placed, each under its own root.
C6_Witness ==
  /\ ~RootsOverlap(configurations)
  /\ \E j \in DOMAIN placed :
       /\ placed[j].src = RV[K_SourceFile].s
       /\ Under(VideoRoot, placed[j].dst)
  /\ \E j \in DOMAIN placed :
       /\ placed[j].src = RA[K_SourceFile].s
       /\ Under(DEFAULT_OUTPUT_BASE_PATH, placed[j].dst)

\* C7: the copy or move of a record leaves the destination with the
\* source's content, a move takes the source away and a copy leaves it as
\* it was, and every other file is as before; no other step of the run
\* changes a file.
C7_Placement ==
  [][IF pc = "manipulate" /\ pc' = "for"
     THEN LET src == exifs[index][K_SourceFile].s
          IN  /\ new_path \in DOMAIN fs'
              /\ fs'[new_path] = fs[src]
              /\ IF is_move
                 THEN src \notin DOMAIN fs'
                 ELSE src \in DOMAIN fs' /\ fs'[src] = fs[src]
              /\ DOMAIN fs' \ {src, new_path} = DOMAIN fs \ {src, new_path}
              /\ \A path \in DOMAIN fs \ {src, new_path} :
                   fs'[path] = fs[path]
     ELSE fs' = fs]_vars

\* A record moved behind a file that was in place: its source is gone, the
\* destination holds what the source held, the old file is as it was.
C7_Witness ==
  /\ is_move
  /\ Len(placed) = 1
  /\ placed[1].src \notin DOMAIN fs
  /\ placed[1].dst = PlaceAt(1)
  /\ fs[PlaceAt(1)] = placed[1].content
  /\ fs[PlaceAt(0)] = OldContent

\* The y m d H M S of a photo_info.
DateParts(info) ==
  [y |-> info[<<"y">>].s, m |-> info[<<"m">>].s, d |-> info[<<"d">>].s,
   H |-> info[<<"H">>].s, M |-> info[<<"M">>].s, S |-> info[<<"S">>].s]

\* The positions in DateKeys of the fields the record holds with a value
\* that is not the empty text, and of those it holds with a value Python
\* takes for true.
NonEmptyFields(exif) ==
  {k \in 1..4 : DateKeys[k] \in DOMAIN exif /\ exif[DateKeys[k]] # Sv(<<>>)}

TruthyFields(exif) == {k \in 1..4 : Truthy(Get(exif, DateKeys[k]))}

Smallest(S) == CHOOSE x \in S : \A y \in S : x <= y

\* The date parts a record gets when the first of the given fields is its
\* date source; the zero date when there is none.
PartsFrom(exif, fields) ==
  IF fields = {} THEN ZeroDate
  ELSE parse_datetime(exif[DateKeys[Smallest(fields)]])

\* C8 as stated: y m d H M S come from the first field, in the order
\* CreateDate, DateCreated, DateTimeOriginal, FileModifyDate, that is
\* present and not empty; from no field, the zero date.
C8_FirstNonEmpty ==
  pc = "branch_no" =>
    DateParts(photo_info) = PartsFrom(exifs[index],
          NonEmptyFields(exifs[index]))

\* C8 amended: y m d H M S come from the first field, in that order, whose
\* value Python takes for true, so a field that is absent, the empty text,
\* null or the number 0 is passed over; from no such field, the zero date.
C8_FirstTruthy ==
  pc = "branch_no" =>
    DateParts(photo_info) = PartsFrom(exifs[index], TruthyFields(exifs[index]))

\* CreateDate is the number 0 and DateCreated the empty text: the date is
\* that of DateTimeOriginal, not of FileModifyDate.
C8_Witness ==
  /\ pc = "branch_no"
  /\ Get(exifs[index], K_CreateDate) = Nv(0)
  /\ Get(exifs[index], K_DateCreated) = Sv(<<>>)
  /\ Get(exifs[index], K_DateTimeOriginal) = Sv(GoodDate(3))
  /\ Get(exifs[index], K_FileModifyDate) = Sv(GoodDate(4))
  /\ DateParts(photo_info).y = <<"2", "0", "2", "3">>

\* The record's date source is not a date: it has none, or the first value
\* Python takes for true is a number or text of another format.
Unparsable(exif) ==
  \/ TruthyFields(exif) = {}
  \/ LET v == exif[DateKeys[Smallest(TruthyFields(exif))]]
     IN  v.t # "str" \/ v.s \notin {GoodDate(k) : k \in 1..4} \cup {D_Plain,
           D_Zone}

ZeroDay == <<"0", "0", "0", "0", "0", "0", "0", "0">>

ZeroStamp == ZeroDay \o <<"0", "0", "0", "0", "0", "0">>

\* C9: a record whose date source is not a date does not fail the run: it
\* is placed under the zero date, also when a field of lower priority
\* holds a date, and the records behind it are placed too.
C9_ZeroDateAndOn ==
  /\ exc = "none"
  /\ \A j \in DOMAIN placed :
       LET exif == exifs[placed[j].index]
       IN  Unparsable(exif) =>
             placed[j].dst
               = PathJoin(OutputBasePath(exif, configurations),
                          ZeroDay \o <<"/">>
                          \o PyStr(Lookup(NormalizedInfo(exif), K_Model))
                          \o <<"/">> \o ZeroStamp \o <<"-">>
                          \o IntToStr(placed[j].bn) \o <<".">>
                          \o exif[K_FileTypeExtension].s)
  /\ pc = "returned" =>
       {placed[j].src : j \in DOMAIN placed}
         = {r[K_SourceFile].s : r \in ValidRecords}

\* CreateDate holds text of another format and FileModifyDate a date: the
\* record is placed under the zero date at number 0 and d.jpg, behind it,
\* at number 1.
C9_Witness ==
  /\ pc = "returned"
  /\ Len(placed) = 2
  /\ Get(exifs[1], K_CreateDate) = Sv(D_Dashes)
  /\ Get(exifs[1], K_FileModifyDate) = Sv(GoodDate(4))
  /\ placed[1].dst = UnknownPlace
  /\ placed[2].src = RD[K_SourceFile].s
  /\ placed[2].bn = 1

\* The keys the template names and the photo_info of the record lacks.
MissingKeys(exif, format) ==
  FieldsOf(format)
    \ (DOMAIN exif
         \cup {<<"y">>, <<"m">>, <<"d">>, <<"H">>, <<"M">>, <<"S">>, K_bn})

\* The record with Unknown for every key it lacks.
WithUnknown(exif, format) ==
  exif @@ [key \in MissingKeys(exif, format) |-> Sv(Unknown)]

LacksKey(exif, format) == MissingKeys(exif, format) # {}

\* C10: a record that lacks a key of the template is scanned for and placed
\* as a record would be that holds Unknown for the key: its branch number
\* is the one behind the files in place under Unknown, and its destination
\* has Unknown where the key's value would be.
C10_UnknownInBothModes ==
  LET format == configurations.filename_format
      filled == WithUnknown(exifs[index], format)
      used == InUse(filled, configurations, Entries)
  IN  (pc \in {"new_path", "makedirs"} /\ LacksKey(exifs[index], format)) =>
        /\ photo_info[K_bn]
             = Nv(IF used = {} THEN 0 ELSE Largest(used) + 1)
        /\ pc = "makedirs"
             => new_path = ConcretePath(filled, configurations,
                                        photo_info[K_bn].n)

\* c.jpg and d.jpg, both without Model, placed behind the file that was in
\* place under Unknown.
C10_Witness ==
  /\ Len(placed) = 2
  /\ \A j \in 1..2 : K_Model \notin DOMAIN exifs[placed[j].index]
  /\ fs[UnknownPlace] = OldContent
  /\ placed[1].bn = 1
  /\ placed[2].bn = 2
  /\ Contains(placed[2].dst, <<"/">> \o Unknown \o <<"/">>)

\* Whether the scan of the record at hand matches a path that gives no
\* branch number.
ScanAnomaly ==
  LET format == configurations.filename_format
      search == BnSearch(format, photo_info)
  IN  \E path \in Glob(GlobPattern(output_base_path, format, photo_info),
                       Entries) :
        LET m == ReSearch(search, path)
        IN  ~m.ok \/ ~m.has \/ m.g = <<>>

\* C11: when the scan matches a path that gives no branch number,
\* branch_no does not return, with 0 or with the path passed over: the run
\* ends there with the exception, the record at hand and those behind it
\* are neither announced nor placed, and nothing was overwritten.
C11_AnomalyAborts ==
  /\ pc = "new_path" => ~ScanAnomaly
  /\ exc = "branch_no" =>
       /\ pc = "raised"
       /\ ScanAnomaly
       /\ \A j \in DOMAIN placed :
            placed[j].index < index /\ ~placed[j].existed
       /\ Len(stdout) = Len(placed)
       /\ \A path \in DOMAIN fs \ SourceFiles :
            fs[path] = OldContent \/ \E j \in DOMAIN placed :
                                       placed[j].dst = path

\* d.jpg placed, then m.jpg met the file whose branch field is not a
\* number; n.jpg, behind it, was not looked at.
C11_Witness ==
  /\ exc = "branch_no"
  /\ exifs = <<RD, RM, RN>>
  /\ index = 2
  /\ Len(placed) = 1
  /\ placed[1].dst = UnknownPlace
  /\ {OddPlace, PlaceAt(0)} \subseteq DOMAIN fs
  /\ fs[OddPlace] = OldContent
  /\ fs[PlaceAt(0)] = OldContent

\* The exceptions of os.makedirs, shutil.copyfile and shutil.move.
FileSystemErrors == {"makedirs", "manipulate"}

\* C12: a failure of the file system while a record is placed ends the
\* run: the step that fails changes no file, what was placed before is in
\* place, and no step follows, for this record or a later one.
C12_FailureEndsRun ==
  [][/\ pc # "raised"
     /\ exc' # "none" => pc' = "raised"
     /\ exc' \in FileSystemErrors =>
          /\ fs' = fs
          /\ placed' = placed
          /\ index' = index
          /\ \A j \in DOMAIN placed :
               /\ placed[j].index < index
               /\ placed[j].dst \in DOMAIN fs'
               /\ fs'[placed[j].dst] = placed[j].content]_vars

\* a.jpg placed, then m.jpg named no source: a.jpg stays where it was put
\* and n.jpg, behind, is not looked at.
C12_Witness ==
  /\ pc = "raised"
  /\ exc = "manipulate"
  /\ exifs = <<RA, RM, RN>>
  /\ index = 2
  /\ Len(placed) = 1
  /\ placed[1].src = RA[K_SourceFile].s
  /\ fs[placed[1].dst] = placed[1].content

\* C15: the steps come in one order.  The final path is rendered when the
\* scan has given the branch number; directories are made for a rendered
\* path; the status line is printed when the parent directory is there and
\* before the file is written; the file is written to the path the last
\* status line names; and the scan of a record starts when every record
\* announced before is written and its destination is there to be seen.
C15_StepOrder ==
  [][/\ (new_path' # new_path /\ new_path' # <<>>) =>
          /\ files = {}
          /\ photo_info[K_bn].t = "num"
          /\ new_path' = PathJoin(output_base_path,
                                  vformat(configurations.filename_format,
                                          photo_info))
     /\ dirs' # dirs =>
          /\ new_path # <<>>
          /\ dirs' = dirs \cup Ancestors(new_path)
          /\ stdout' = stdout /\ fs' = fs
     /\ stdout' # stdout =>
          /\ Dirname(new_path) \in dirs
          /\ stdout' = Append(stdout, stdout'[Len(stdout')])
          /\ stdout'[Len(stdout')].new_path = new_path
          /\ Len(stdout) = Len(placed)
          /\ fs' = fs
     /\ fs' # fs =>
          /\ Len(stdout) = Len(placed) + 1
          /\ stdout[Len(stdout)].new_path = new_path
          /\ new_path \in DOMAIN fs'
          /\ stdout' = stdout
     /\ (pc = "branch_no" /\ pc' # pc) =>
          /\ Len(stdout) = Len(placed)
          /\ \A j \in DOMAIN placed : placed[j].dst \in Entries]_vars

\* b.jpg announced for number 1, its directory there, a.jpg written at
\* number 0 before the scan of b.jpg, b.jpg not yet written.
C15_Witness ==
  /\ pc = "manipulate"
  /\ Len(stdout) = 2
  /\ Len(placed) = 1
  /\ placed[1].dst = PlaceAt(0)
  /\ stdout[2].new_path = PlaceAt(1)
  /\ Dirname(new_path) \in dirs
  /\ new_path \notin DOMAIN fs

\* The files a run has added: those that hold what a source held.
Added == {path \in DOMAIN fs \ SourceFiles : fs[path] # OldContent}

\* The records main has still to take up, and how far it is from the end
\* of the one it is at.
Left == (IF pc = "main" THEN Len(input_json.array) ELSE Len(exifs)) - index

Rank(at) ==
  CASE at = "main" -> 12
    [] at = "load_configure" -> 11
    [] at = "for" -> 10
    [] at = "photo_info" -> 9
    [] at = "branch_no" -> 8
    [] at = "for_fn" -> 7
    [] at = "new_path" -> 6
    [] at = "makedirs" -> 5
    [] at = "print" -> 4
    [] at = "manipulate" -> 3
    [] OTHER -> 0

\* C16: every run ends, each step bringing it nearer to the end: fewer
\* records left, or the same record further on, or fewer matched paths to
\* look at, and never more than one step past the last record.  A run that
\* ends without an exception has announced and placed each record without
\* Error once, has added as many files as there are such records, and has
\* left every source in place when copying and none of the placed records'
\* when moving.
C16_Terminates ==
  /\ [][\/ Left' < Left
        \/ Left' = Left /\ Rank(pc') < Rank(pc)
        \/ /\ Left' = Left /\ pc' = pc
           /\ files' \subseteq files /\ files' # files]_vars
  /\ [](/\ Left >= -1
        /\ (pc = "returned" /\ ~input_json.empty) =>
             LET sources == {r[K_SourceFile].s : r \in ValidRecords}
             IN  /\ Len(placed) = Cardinality(ValidRecords)
                 /\ Len(stdout) = Len(placed)
                 /\ {placed[j].src : j \in DOMAIN placed} = sources
                 /\ Cardinality(Added) = Cardinality(ValidRecords)
                 /\ IF is_move
                    THEN sources \cap DOMAIN fs = {}
                    ELSE \A src \in SourceFiles :
                           src \in DOMAIN fs /\ fs[src] = src)

\* A run that moved one record and skipped the other has returned.
C16_Witness ==
  /\ pc = "returned"
  /\ is_move
  /\ Len(exifs) = 2
  /\ Len(placed) = 1
  /\ Cardinality(ErrorRecords) = 1
  /\ Cardinality(Added) = 1
  /\ placed[1].src \notin DOMAIN fs

\* The files and directories are those of before the run.
NothingTouched ==
  /\ SourceFiles \subseteq DOMAIN fs
  /\ \A path \in DOMAIN fs :
       fs[path] = IF path \in SourceFiles THEN path ELSE OldContent
  /\ dirs = UNION {Ancestors(path) : path \in DOMAIN fs}

OwnPattern(exif, conf, entries) ==
  LET format == conf.filename_format
      at == CHOOSE i \in 1..Len(format) : format[i] = Field(K_bn)
      info == NormalizedInfo(exif)
      head == PathJoin(OutputBasePath(exif, conf),
                       vformat(SubSeq(format, 1, at - 1), info))
      tail == vformat(SubSeq(format, at + 1, Len(format)), info)
  IN  {SubSeq(path, Len(head) + 1, Len(path) - Len(tail)) :
         path \in {e \in entries :
                     /\ Len(e) > Len(head) + Len(tail)
                     /\ SubSeq(e, 1, Len(head)) = head
                     /\ SubSeq(e, Len(e) - Len(tail) + 1, Len(e)) = tail}}

\* C18: the branch number of a record is given by the paths that are its
\* own but for the branch field; files under the other root and files that
\* differ in another value do not count, and a record with no path of its
\* own starts at 0.
C18_OwnPatternOnly ==
  pc = "new_path" =>
    LET own == OwnPattern(exifs[index], configurations, Entries)
    IN  photo_info[K_bn]
          = Nv(IF own = {} THEN 0
               ELSE Largest({StrToInt(field) : field \in own}) + 1)

\* Whether two placements are of one instance: both sources are named in
\* the JSON it was given.
SameInstance(a, b) ==
  \E json \in {input_json, other.input_json} :
    {a.src, b.src} \subseteq {r[K_SourceFile].s : r \in Range(json.array)}

\* C13: with two instances on one tree a file is overwritten only by the
\* race: the file overwritten was placed by the other instance, at the
\* same branch number; and as long as one of the two has not begun, that
\* is in a run of one instance, nothing is overwritten.
C13_OverwriteOnlyByRace ==
  /\ \A j \in DOMAIN placed :
       placed[j].existed =>
         \E i \in 1..(j - 1) :
           /\ placed[i].dst = placed[j].dst
           /\ placed[i].bn = placed[j].bn
           /\ ~SameInstance(placed[i], placed[j])
  /\ (pc = "main" \/ other.pc = "main") =>
       \A j \in DOMAIN placed : ~placed[j].existed

\* Both instances moved their file to number 0: what the first one moved
\* there is in no file any more.
C13_Witness ==
  /\ Len(placed) = 2
  /\ placed[1].dst = PlaceAt(0)
  /\ placed[2].dst = PlaceAt(0)
  /\ placed[1].bn = 0 /\ placed[2].bn = 0
  /\ placed[2].existed
  /\ is_move /\ other.is_move
  /\ placed[1].src \notin DOMAIN fs
  /\ \A path \in DOMAIN fs : fs[path] # placed[1].content

\* C14: started with a source directory and the tool not installed, the
\* program ends in make_exif_json with its exception: main is not entered,
\* and no file or directory is made, copied, moved or removed, the log
\* directory and the metadata JSON among them.
C14_MissingToolAborts ==
  (Truthy(Sv(args.source_dir)) /\ args.path_to_exif_tool \notin DOMAIN fs) =>
    /\ pc \in {"__main__", "make_exif_json", "raised"}
    /\ pc = "raised" => exc = "make_exif_json"
    /\ NothingTouched
    /\ LogRootDir \notin dirs
    /\ input_json.empty /\ exifs = <<>> /\ configurations = NoConfigurations
    /\ placed = <<>> /\ stdout = <<>> /\ res = <<>>

C14_Witness ==
  /\ pc = "raised"
  /\ exc = "make_exif_json"
  /\ args.source_dir = SourceDir
  /\ PATH_TO_EXIF_TOOL \notin DOMAIN fs
  /\ PlaceAt(0) \in DOMAIN fs
  /\ JsonOut \notin DOMAIN fs

\* C19: a tool that ends with a status other than 0 raises nothing; the
\* file of its output is there and what it holds is the text main is
\* called with; and main called with the empty text after such a status
\* returns at once, loading no configuration and changing no file or
\* directory.
C19_ToolStatusPassedOver ==
  [][/\ res' # res =>
          /\ exc' = "none" /\ pc' = "open"
          /\ JsonOut \in DOMAIN fs'
     /\ pc = "open" =>
          /\ exc' = "none" /\ pc' = "main"
          /\ input_json' = fs[JsonOut]
          /\ fs' = fs
     /\ (pc = "main" /\ res = <<1>> /\ input_json.empty) =>
          /\ pc' = "returned" /\ exc' = "none"
          /\ configurations' = NoConfigurations /\ exifs' = <<>>
          /\ fs' = fs /\ dirs' = dirs
          /\ placed' = <<>> /\ stdout' = <<>>]_vars

C19_Witness ==
  /\ pc = "returned"
  /\ res = <<1>>
  /\ args.source_dir = SourceDir
  /\ JsonOut \in DOMAIN fs
  /\ input_json.empty
  /\ configurations = NoConfigurations
  /\ placed = <<>>

=============================================================================
